---- MODULE Spec2Model ----
(***************************************************************************)
(* Model of the CloudStack kontainer-engine driver (acs_driver.go).        *)
(*                                                                         *)
(* The driver facade answers the lifecycle operations of the host.  Only   *)
(* Create has logic: it extracts a settings record from the option bag,    *)
(* builds a CloudStack client and submits one deployVirtualMachine         *)
(* request.  Create is modelled step by step for each calling goroutine,   *)
(* cut where it touches shared state and where it waits for the provider,  *)
(* so that other calls interleave with it; every other operation is a      *)
(* single return statement and is one atomic action.                       *)
(***************************************************************************)
EXTENDS Integers, Sequences, FiniteSets, TLC

\* Number of goroutines of the host that may each run one Create call.
MaxCalls == 2

Callers == 1..MaxCalls

\* A nil pointer.  Heap references are the positive naturals.
NilRef == 0

\* A nil error value and the one error the driver ever builds.
ErrNil == "<nil>"
ErrNotImplemented == "Not implemented"

\* types.StringType / types.IntType
StringType == "string"
IntType == "int"

\* The capability identifiers of the host (types.*Capability).
GetVersionCapability == "GetVersionCapability"
SetVersionCapability == "SetVersionCapability"
GetClusterSizeCapability == "GetClusterSizeCapability"
SetClusterSizeCapability == "SetClusterSizeCapability"

-----------------------------------------------------------------------------
(* Option bags: types.DriverOptions, two maps keyed by option name.         *)

\* A map literal with one key.
One(k, v) == k :> v

EmptyMap == <<>>

DriverOptions(strs, ints) == [StringOptions |-> strs, IntOptions |-> ints]

RECURSIVE LookupKeys(_, _, _)
\* The loop "for _, key := range keys { if value, ok := m[key]; ok { return value } }"
\* followed by the return of the type's zero value.
LookupKeys(m, keys, zero) ==
    IF keys = <<>> THEN zero
    ELSE IF Head(keys) \in DOMAIN m THEN m[Head(keys)]
    ELSE LookupKeys(m, Tail(keys), zero)

\* options.GetValueFromDriverOptions(driverOptions, optionType, keys...)
GetValueFromDriverOptions(driverOptions, optionType, keys) ==
    IF optionType = IntType THEN LookupKeys(driverOptions.IntOptions, keys, 0)
    ELSE LookupKeys(driverOptions.StringOptions, keys, "")

-----------------------------------------------------------------------------
(* The settings record: type state with its embedded AcsSettings / Config. *)

\* The zero value of Config.
ZeroConfig == [EndPoint |-> "", Access |-> "", Secret |-> ""]

\* The zero value of AcsSettings.
ZeroAcsSettings ==
    [SSHKeyPair |-> "", ProjectID |-> "", UsePrivateIP |-> FALSE,
     ServiceOffering |-> "", TemplateID |-> "", ZoneID |-> "",
     NetworkID |-> "", UserData |-> "", Config |-> ZeroConfig]

\* A types.ClusterInfo value.  Metadata is a Go map: nil or a set of entries.
ClusterInfoValue(endpoint, nodeCount, metaNil, meta) ==
    [Endpoint |-> endpoint, NodeCount |-> nodeCount,
     Metadata |-> [isNil |-> metaNil, entries |-> meta]]

\* types.ClusterInfo{} : every field zero, the Metadata map nil.
ZeroClusterInfo == ClusterInfoValue("", 0, TRUE, EmptyMap)

\* The zero value of state, as a local variable holds it before assignment.
ZeroState ==
    [ClusterName |-> "", Description |-> "", InitialNodeCount |-> 0,
     AcsSettings |-> ZeroAcsSettings, ClusterInfo |-> ZeroClusterInfo]

\* getStateFromOpts with a slip: the secret key is read from the access option.
getStateFromOptsSecretSlip(driverOptions) ==
    [state |->
        [ClusterName |-> GetValueFromDriverOptions(driverOptions, StringType,
                             <<"cluster-name", "ClusterName">>),
         Description |-> GetValueFromDriverOptions(driverOptions, StringType,
                             <<"description", "Description">>),
         InitialNodeCount |-> GetValueFromDriverOptions(driverOptions, IntType,
                             <<"node-count", "InitialNodeCount">>),
         AcsSettings |->
            [ZeroAcsSettings EXCEPT !.Config =
                [EndPoint |-> GetValueFromDriverOptions(driverOptions, StringType,
                                  <<"cloudstack-endpoint", "CloudstackEndPoint">>),
                 Access |-> GetValueFromDriverOptions(driverOptions, StringType,
                                  <<"cloudstack-access">>),
                 Secret |-> GetValueFromDriverOptions(driverOptions, StringType,
                                  <<"cloudstack-access">>)]],
         ClusterInfo |-> ClusterInfoValue("", 0, FALSE, EmptyMap)],
     err |-> ErrNil]

\* getStateFromOpts with a slip: the template id is read from an option.
getStateFromOptsTemplate(driverOptions) ==
    [state |->
        [ClusterName |-> GetValueFromDriverOptions(driverOptions, StringType,
                             <<"cluster-name", "ClusterName">>),
         Description |-> GetValueFromDriverOptions(driverOptions, StringType,
                             <<"description", "Description">>),
         InitialNodeCount |-> GetValueFromDriverOptions(driverOptions, IntType,
                             <<"node-count", "InitialNodeCount">>),
         AcsSettings |->
            [ZeroAcsSettings EXCEPT
                !.TemplateID = GetValueFromDriverOptions(driverOptions, StringType,
                                  <<"template-id">>),
                !.Config =
                [EndPoint |-> GetValueFromDriverOptions(driverOptions, StringType,
                                  <<"cloudstack-endpoint", "CloudstackEndPoint">>),
                 Access |-> GetValueFromDriverOptions(driverOptions, StringType,
                                  <<"cloudstack-access">>),
                 Secret |-> GetValueFromDriverOptions(driverOptions, StringType,
                                  <<"cloudstack-secret">>)]],
         ClusterInfo |-> ClusterInfoValue("", 0, FALSE, EmptyMap)],
     err |-> ErrNil]

\* getStateFromOpts: the state literal with an empty Metadata map, then the six
\* assignments, then "return d, nil".
getStateFromOpts(driverOptions) ==
    [state |->
        [ClusterName |-> GetValueFromDriverOptions(driverOptions, StringType,
                             <<"cluster-name", "ClusterName">>),
         Description |-> GetValueFromDriverOptions(driverOptions, StringType,
                             <<"description", "Description">>),
         InitialNodeCount |-> GetValueFromDriverOptions(driverOptions, IntType,
                             <<"node-count", "InitialNodeCount">>),
         AcsSettings |->
            [ZeroAcsSettings EXCEPT !.Config =
                [EndPoint |-> GetValueFromDriverOptions(driverOptions, StringType,
                                  <<"cloudstack-endpoint", "CloudstackEndPoint">>),
                 Access |-> GetValueFromDriverOptions(driverOptions, StringType,
                                  <<"cloudstack-access">>),
                 Secret |-> GetValueFromDriverOptions(driverOptions, StringType,
                                  <<"cloudstack-secret">>)]],
         ClusterInfo |-> ClusterInfoValue("", 0, FALSE, EmptyMap)],
     err |-> ErrNil]

-----------------------------------------------------------------------------
(* The cloud side: client handles and the provider's request log.          *)

\* The next unused reference of a heap that never frees.
Fresh(heap) == Cardinality(DOMAIN heap) + 1

\* cloudstack.NewClient(apiurl, apikey, secret, verifyssl)
NewClient(apiurl, apikey, secret, verifyssl) ==
    [EndPoint |-> apiurl, Access |-> apikey, Secret |-> secret,
     verifyssl |-> verifyssl]

\* acsConn that keeps one client for the whole process and hands it out again.
acsConnShared(c, heap) ==
    IF DOMAIN heap # {}
    THEN [cs |-> 1, clients |-> heap, err |-> ErrNil]
    ELSE [cs |-> Fresh(heap),
          clients |-> heap @@ One(Fresh(heap),
              NewClient(c.Config.EndPoint, c.Config.Access, c.Config.Secret, FALSE)),
          err |-> ErrNil]

\* acsConn: a new client from the receiver's endpoint and keys, and a nil error.
acsConn(c, heap) ==
    [cs |-> Fresh(heap),
     clients |-> heap @@ One(Fresh(heap),
         NewClient(c.Config.EndPoint, c.Config.Access, c.Config.Secret, FALSE)),
     err |-> ErrNil]

\* VirtualMachine.NewDeployVirtualMachineParams(serviceofferingid, templateid, zoneid)
NewDeployVirtualMachineParams(serviceofferingid, templateid, zoneid) ==
    One("serviceofferingid", serviceofferingid) @@ One("templateid", templateid)
        @@ One("zoneid", zoneid)

\* p.SetXxx(v): the parameter map with key k set to v.
SetParam(p, k, v) == [x \in DOMAIN p \cup {k} |-> IF x = k THEN v ELSE p[x]]

\* The request of createInstance with the template and zone ids exchanged.
deployParamsSwapped(c, s) ==
    LET p0 == NewDeployVirtualMachineParams(c.ServiceOffering, c.TemplateID, c.ZoneID)
        p1 == SetParam(p0, "displayname", s.ClusterName)
        p2 == SetParam(p1, "name", s.ClusterName)
        p3 == SetParam(p2, "networkids", <<c.NetworkID>>)
        p4 == SetParam(p3, "projectid", c.ProjectID)
        p5 == SetParam(p4, "serviceofferingid", c.ServiceOffering)
        p6 == SetParam(p5, "templateid", c.ZoneID)
    IN  SetParam(p6, "zoneid", c.TemplateID)

\* The request createInstance builds: the constructor, then the seven setters.
deployParams(c, s) ==
    LET p0 == NewDeployVirtualMachineParams(c.ServiceOffering, c.TemplateID, c.ZoneID)
        p1 == SetParam(p0, "displayname", s.ClusterName)
        p2 == SetParam(p1, "name", s.ClusterName)
        p3 == SetParam(p2, "networkids", <<c.NetworkID>>)
        p4 == SetParam(p3, "projectid", c.ProjectID)
        p5 == SetParam(p4, "serviceofferingid", c.ServiceOffering)
        p6 == SetParam(p5, "templateid", c.TemplateID)
    IN  SetParam(p6, "zoneid", c.ZoneID)

\* VirtualMachine.DeployVirtualMachine(p), first half: the request goes out over
\* the handle and reaches the provider; the caller waits for the answer.
DeployVirtualMachineSend(log, call, cs, p) ==
    Append(log, [call |-> call, handle |-> cs, params |-> p, answer |-> "pending"])

\* VirtualMachine.DeployVirtualMachine(p), second half: the provider answers
\* request k with an instance (ok) or with an error.
DeployVirtualMachineAnswer(log, k, ok) ==
    [submitted |-> [log EXCEPT ![k].answer = IF ok THEN "ok" ELSE "error"],
     vm |-> IF ok THEN k ELSE NilRef,
     err |-> IF ok THEN ErrNil ELSE "deploy failed"]

\* createInstance, lines 198-210: build the request and hand it to
\* DeployVirtualMachine.
createInstanceSend(c, s, cs, call, log) ==
    DeployVirtualMachineSend(log, call, cs, deployParams(c, s))

\* createInstance that submits the request again after a failed deployment.
createInstanceAnswerRetry(c, s, cs, call, log, k, ok) ==
    LET r == DeployVirtualMachineAnswer(log, k, ok)
        again == DeployVirtualMachineSend(r.submitted, call, cs, deployParams(c, s))
        r2 == DeployVirtualMachineAnswer(again, Len(again), ok)
    IN  IF ok
        THEN [submitted |-> r.submitted, vm |-> r.vm, err |-> ErrNil]
        ELSE [submitted |-> r2.submitted, vm |-> r2.vm, err |-> ErrNil]

\* createInstance that returns the deployment's error to its caller.
createInstanceAnswerPropagates(c, s, cs, call, log, k, ok) ==
    LET r == DeployVirtualMachineAnswer(log, k, ok)
    IN  [submitted |-> r.submitted, vm |-> r.vm, err |-> r.err]

\* createInstance, lines 210-217: take the answer of DeployVirtualMachine, print
\* the outcome, "return vm, nil".
createInstanceAnswer(c, s, cs, call, log, k, ok) ==
    LET r == DeployVirtualMachineAnswer(log, k, ok)
    IN  [submitted |-> r.submitted, vm |-> r.vm, err |-> ErrNil]

-----------------------------------------------------------------------------
(* The values the stub operations return.                                  *)

NoValue == [type |-> "none"]

\* &types.KubernetesVersion{}
ZeroKubernetesVersion == [type |-> "KubernetesVersion", Major |-> "", Minor |-> ""]

\* &types.NodeCount{}
ZeroNodeCount == [type |-> "NodeCount", Count |-> 0]

\* &types.K8SCapabilities{}
ZeroK8SCapabilities ==
    [type |-> "K8SCapabilities", L4LoadBalancer |-> NilRef, IngressControllers |-> <<>>,
     NodePoolScalingSupported |-> FALSE, NodePortRange |-> ""]

\* types.Capabilities with the given identifiers set to true.
CapabilitiesValue(caps) == [type |-> "Capabilities", Capabilities |-> caps]

\* Capabilities.AddCapability(cap)
AddCapability(caps, cap) == caps \cup {cap}

\* NewDriver: an empty capability map, then four AddCapability calls.
NewDriver ==
    AddCapability(AddCapability(AddCapability(AddCapability({},
        GetVersionCapability), SetVersionCapability),
        GetClusterSizeCapability), SetClusterSizeCapability)

\* GetCapabilities answering with the driver's own capability set.
GetCapabilitiesOwn(d) == [rval |-> CapabilitiesValue(d), err |-> ErrNil]

\* GetCapabilities: "cap := &types.Capabilities{}; return cap, nil".
GetCapabilitiesResult(d) == [rval |-> CapabilitiesValue({}), err |-> ErrNil]

\* A flag descriptor of types.DriverFlags.
Flag(type, usage) == [Type |-> type, Usage |-> usage]

\* GetDriverCreateOptions
CreateFlags ==
    [type |-> "DriverFlags", Options |->
        One("cluster-name", Flag(StringType, "Cluster name to be displayed in Rancher UI"))
     @@ One("cloudstack-endpoint", Flag(StringType, "Define Cloudstack API endpoint"))
     @@ One("cloudstack-access", Flag(StringType, "Access Key to authenticate in cloudstack"))
     @@ One("cloudstack-secret", Flag(StringType, "Secret Key to authenticate in cloudstack"))
     @@ One("description", Flag(StringType, "Description to project"))]

\* GetDriverUpdateOptions
UpdateFlags ==
    [type |-> "DriverFlags", Options |->
        One("node-count", Flag(IntType, "Number of nodes"))]

-----------------------------------------------------------------------------
(* Inputs of the host.                                                     *)

\* The option bag of a host that uses the declared flag names.
BagDeclared ==
    DriverOptions(
        One("cluster-name", "demo") @@ One("cloudstack-endpoint", "http://cs.local")
            @@ One("cloudstack-access", "AK") @@ One("cloudstack-secret", "SK"),
        EmptyMap)

\* The option bag of a host that uses the alternate field names, and that also
\* carries options the driver does not read.
BagAlternate ==
    DriverOptions(
        One("ClusterName", "legacy") @@ One("CloudstackEndPoint", "https://cs2.local")
            @@ One("cloudstack-access", "AK2") @@ One("cloudstack-secret", "SK2")
            @@ One("Description", "blue") @@ One("template-id", "tpl-9")
            @@ One("zone-id", "zone-9") @@ One("service-offering", "so-9")
            @@ One("network-id", "net-9") @@ One("project-id", "prj-9"),
        One("InitialNodeCount", 3))

\* The empty option bag.
BagEmpty == DriverOptions(EmptyMap, EmptyMap)

\* The option bags the host passes to the lifecycle operations.
CreateBags == {BagDeclared, BagAlternate, BagEmpty}

\* A ClusterInfo the host owns before any call of the driver.
HostClusterInfo == ClusterInfoValue("https://k8s.local", 3, FALSE, One("state", "x"))

\* Versions, node counts and snapshot names the host may pass.
VersionArgs == {NilRef, 1}
CountArgs == {0, 5}
SnapshotNames == {"", "snap"}

-----------------------------------------------------------------------------
(* State.                                                                  *)

VARIABLES
    callers,             \* per Create call: its position and its local variables
    infos,               \* heap of ClusterInfo records: reference -> value
    clients,             \* heap of cloud connection handles: reference -> client
    submitted,           \* the deploy requests the provider has received, in order
    driverCapabilities,  \* ACSDriver.driverCapabilities
    last,                \* the lifecycle call that returned last: operation, argument, result
    unit                 \* input and output of a direct call of getStateFromOpts

vars == <<callers, infos, clients, submitted, driverCapabilities, last, unit>>

\* A Create call that has not started: its locals hold their zero values.
\* req is the position of the call's request in the provider's log and ret is
\* what the call returned.
IdleCaller ==
    [pc |-> "idle", opts |-> BagEmpty, arg |-> NilRef, state |-> ZeroState,
     info |-> NilRef, cs |-> NilRef, req |-> 0, vm |-> NilRef, err |-> ErrNil,
     ret |-> [rinfo |-> NilRef, err |-> ErrNil]]

NoCall == [op |-> "none", arg |-> NilRef, rinfo |-> NilRef, rval |-> NoValue, err |-> ErrNil]

NoUnit == [fn |-> "none", done |-> FALSE, opts |-> BagEmpty, state |-> ZeroState,
           err |-> ErrNil]

\* ClusterInfo arguments the host can pass: nil or any record on the heap.
InfoArgs == {NilRef} \cup DOMAIN infos

\* ClusterInfo arguments for the operations that do not look at them.
IgnoredInfoArgs == {NilRef, 1}

\* The arguments of a Create call: an option bag and a ClusterInfo.
CreateInputs ==
    {<<BagDeclared, 1>>, <<BagDeclared, NilRef>>, <<BagAlternate, 1>>, <<BagEmpty, NilRef>>}

Returned(op, arg, rinfo, rval, err) ==
    [op |-> op, arg |-> arg, rinfo |-> rinfo, rval |-> rval, err |-> err]

Init ==
    /\ callers = [i \in Callers |-> IdleCaller]
    /\ infos = One(1, HostClusterInfo)
    /\ clients = EmptyMap
    /\ submitted = <<>>
    /\ driverCapabilities = NewDriver
    /\ last = NoCall
    /\ unit = NoUnit

-----------------------------------------------------------------------------
(* Create, cut at its interactions with shared state and with the provider. *)

\* Create, lines 113-118: extract the settings; on an error leave with
\* (nil, err); otherwise allocate the ClusterInfo to return.
createBegin(c, heap, opts, arg) ==
    LET r == getStateFromOpts(opts) IN
    IF r.err # ErrNil
    THEN [caller |-> [c EXCEPT !.pc = "deployed", !.opts = opts, !.arg = arg,
                               !.err = r.err],
          infos |-> heap]
    ELSE [caller |-> [c EXCEPT !.pc = "extracted", !.opts = opts, !.arg = arg,
                               !.state = r.state, !.info = Fresh(heap)],
          infos |-> heap @@ One(Fresh(heap), ZeroClusterInfo)]

\* createInstance, lines 192-196: build the connection from the receiver
\* state.AcsSettings; on an error leave with (nil, err).
createConn(c, heap) ==
    LET r == acsConn(c.state.AcsSettings, heap) IN
    [caller |-> IF r.err # ErrNil
                THEN [c EXCEPT !.pc = "deployed", !.err = r.err]
                ELSE [c EXCEPT !.pc = "connected", !.cs = r.cs],
     clients |-> r.clients]

\* createInstance, lines 198-210, called as state.AcsSettings.createInstance(state):
\* the request is with the provider and the call waits at line 210.
createSend(c, call, log) ==
    [caller |-> [c EXCEPT !.pc = "sent", !.req = Len(log) + 1],
     submitted |-> createInstanceSend(c.state.AcsSettings, c.state, c.cs, call, log)]

\* createInstance, lines 210-217: the answer arrives and createInstance returns.
createAnswer(c, call, log, ok) ==
    LET r == createInstanceAnswer(c.state.AcsSettings, c.state, c.cs, call, log,
                                  c.req, ok) IN
    [caller |-> [c EXCEPT !.pc = "deployed", !.vm = r.vm, !.err = r.err],
     submitted |-> r.submitted]

\* Create that answers with the ClusterInfo it was given.
CreateResultArg(info, arg, err) == [rinfo |-> arg, err |-> err]

\* Create, lines 143-148: "return info, err" on an error, "return info, nil" else.
CreateResult(info, arg, err) == [rinfo |-> info, err |-> err]

createReturn(c) ==
    LET r == CreateResult(c.info, c.arg, c.err) IN
    [caller |-> [c EXCEPT !.pc = "done", !.ret = r],
     last |-> Returned("Create", c.arg, r.rinfo, NoValue, r.err)]

\* The steps as actions of a goroutine i of the host.  The calls are numbered
\* in the order in which they start.
CreateBegin(i) ==
    /\ callers[i].pc = "idle"
    /\ \A j \in Callers : j < i => callers[j].pc # "idle"
    /\ \E in \in CreateInputs :
        LET r == createBegin(callers[i], infos, in[1], in[2]) IN
        /\ callers' = [callers EXCEPT ![i] = r.caller]
        /\ infos' = r.infos
    /\ UNCHANGED <<clients, submitted, driverCapabilities, last, unit>>

AcsConn(i) ==
    /\ callers[i].pc = "extracted"
    /\ LET r == createConn(callers[i], clients) IN
        /\ callers' = [callers EXCEPT ![i] = r.caller]
        /\ clients' = r.clients
    /\ UNCHANGED <<infos, submitted, driverCapabilities, last, unit>>

DeploySend(i) ==
    /\ callers[i].pc = "connected"
    /\ LET r == createSend(callers[i], i, submitted) IN
        /\ callers' = [callers EXCEPT ![i] = r.caller]
        /\ submitted' = r.submitted
    /\ UNCHANGED <<infos, clients, driverCapabilities, last, unit>>

DeployAnswer(i) ==
    /\ callers[i].pc = "sent"
    /\ \E ok \in BOOLEAN :
        LET r == createAnswer(callers[i], i, submitted, ok) IN
        /\ callers' = [callers EXCEPT ![i] = r.caller]
        /\ submitted' = r.submitted
    /\ UNCHANGED <<infos, clients, driverCapabilities, last, unit>>

CreateReturn(i) ==
    /\ callers[i].pc = "deployed"
    /\ LET r == createReturn(callers[i]) IN
        /\ callers' = [callers EXCEPT ![i] = r.caller]
        /\ last' = r.last
    /\ UNCHANGED <<infos, clients, submitted, driverCapabilities, unit>>

-----
(* The other lifecycle operations: each is one return statement.           *)

\* What a stub leaves alone: everything but the record of the returned call.
StubFrame == UNCHANGED <<callers, infos, clients, submitted, driverCapabilities, unit>>

\* GetDriverCreateOptions: the five create-time flags.
GetDriverCreateOptions ==
    /\ last' = Returned("GetDriverCreateOptions", NilRef, NilRef, CreateFlags, ErrNil)
    /\ StubFrame

\* GetDriverUpdateOptions: the one update-time flag.
GetDriverUpdateOptions ==
    /\ last' = Returned("GetDriverUpdateOptions", NilRef, NilRef, UpdateFlags, ErrNil)
    /\ StubFrame

\* A pass-through that answers nil.
PassThroughNil(info) == [rinfo |-> NilRef, err |-> ErrNil]

\* Update and PostCheck: "return info, nil".
PassThrough(info) == [rinfo |-> info, err |-> ErrNil]

Update ==
    /\ \E info \in InfoArgs, opts \in CreateBags :
        last' = Returned("Update", info, PassThrough(info).rinfo, NoValue,
                         PassThrough(info).err)
    /\ StubFrame

PostCheck ==
    /\ \E info \in InfoArgs :
        last' = Returned("PostCheck", info, PassThrough(info).rinfo, NoValue,
                         PassThrough(info).err)
    /\ StubFrame

\* An unimplemented operation that reports success.
NotImplementedNil == ErrNil

\* fmt.Errorf("Not implemented")
NotImplemented == ErrNotImplemented

Remove ==
    /\ \E info \in IgnoredInfoArgs :
        last' = Returned("Remove", info, NilRef, NoValue, NotImplemented)
    /\ StubFrame

GetVersion ==
    /\ \E info \in IgnoredInfoArgs :
        last' = Returned("GetVersion", info, NilRef, ZeroKubernetesVersion, ErrNil)
    /\ StubFrame

\* SetVersion that withdraws the set-version capability from the driver.
SetVersionWithdraws ==
    /\ \E info \in IgnoredInfoArgs, version \in VersionArgs :
        last' = Returned("SetVersion", info, NilRef, NoValue, ErrNil)
    /\ driverCapabilities' = driverCapabilities \ {SetVersionCapability}
    /\ UNCHANGED <<callers, infos, clients, submitted, unit>>

SetVersion ==
    /\ \E info \in IgnoredInfoArgs, version \in VersionArgs :
        last' = Returned("SetVersion", info, NilRef, NoValue, ErrNil)
    /\ StubFrame

GetClusterSize ==
    /\ \E info \in IgnoredInfoArgs :
        last' = Returned("GetClusterSize", info, NilRef, ZeroNodeCount, ErrNil)
    /\ StubFrame

SetClusterSize ==
    /\ \E info \in IgnoredInfoArgs, count \in CountArgs :
        last' = Returned("SetClusterSize", info, NilRef, NoValue, NotImplemented)
    /\ StubFrame

GetCapabilities ==
    /\ last' = Returned("GetCapabilities", NilRef, NilRef,
                        GetCapabilitiesResult(driverCapabilities).rval,
                        GetCapabilitiesResult(driverCapabilities).err)
    /\ StubFrame

RemoveLegacyServiceAccount ==
    /\ \E info \in IgnoredInfoArgs :
        last' = Returned("RemoveLegacyServiceAccount", info, NilRef, NoValue, ErrNil)
    /\ StubFrame

ETCDSave ==
    /\ \E info \in IgnoredInfoArgs, snapshotName \in SnapshotNames :
        last' = Returned("ETCDSave", info, NilRef, NoValue, NotImplemented)
    /\ StubFrame

ETCDRestore ==
    /\ \E info \in IgnoredInfoArgs, snapshotName \in SnapshotNames :
        last' = Returned("ETCDRestore", info, NilRef, NoValue, ErrNil)
    /\ StubFrame

ETCDRemoveSnapshot ==
    /\ \E info \in IgnoredInfoArgs, snapshotName \in SnapshotNames :
        last' = Returned("ETCDRemoveSnapshot", info, NilRef, NoValue, NotImplemented)
    /\ StubFrame

GetK8SCapabilities ==
    /\ \E opts \in CreateBags :
        last' = Returned("GetK8SCapabilities", NilRef, NilRef, ZeroK8SCapabilities, ErrNil)
    /\ StubFrame

-----------------------------------------------------------------------------
(* The driver under a host that calls any operation at any time, also      *)
(* while Create calls are in progress.                                     *)

\* Number of Create calls of the host when the other operations run too.
MaxCreates == 1

Next ==
    \/ \E i \in 1..MaxCreates : CreateBegin(i)
    \/ \E i \in Callers : AcsConn(i)
    \/ \E i \in Callers : DeploySend(i)
    \/ \E i \in Callers : DeployAnswer(i)
    \/ \E i \in Callers : CreateReturn(i)
    \/ GetDriverCreateOptions
    \/ GetDriverUpdateOptions
    \/ Update
    \/ PostCheck
    \/ Remove
    \/ GetVersion
    \/ SetVersion
    \/ GetClusterSize
    \/ SetClusterSize
    \/ GetCapabilities
    \/ RemoveLegacyServiceAccount
    \/ ETCDSave
    \/ ETCDRestore
    \/ ETCDRemoveSnapshot
    \/ GetK8SCapabilities

Spec == Init /\ [][Next]_vars

-----------------------------------------------------------------------------
(* Create calls of several goroutines, interleaved step by step.           *)

NextConcurrent ==
    \/ \E i \in Callers : CreateBegin(i)
    \/ \E i \in Callers : AcsConn(i)
    \/ \E i \in Callers : DeploySend(i)
    \/ \E i \in Callers : DeployAnswer(i)
    \/ \E i \in Callers : CreateReturn(i)

SpecConcurrent == Init /\ [][NextConcurrent]_vars

-----
(* createInstance called directly, on settings with every field free.      *)

ProvisionNames == {"", "N"}
ProvisionOfferings == {"", "S"}
ProvisionTemplates == {"", "T"}
ProvisionZones == {"", "Z"}
ProvisionNetworks == {"", "W"}
ProvisionProjects == {"", "P"}

ProvisionStates ==
    { [ZeroState EXCEPT
          !.ClusterName = n,
          !.AcsSettings = [ZeroAcsSettings EXCEPT
              !.ServiceOffering = so, !.TemplateID = t, !.ZoneID = z,
              !.NetworkID = w, !.ProjectID = p,
              !.Config = [EndPoint |-> "http://cs.local", Access |-> "AK",
                          Secret |-> "SK"]]] :
        n \in ProvisionNames, so \in ProvisionOfferings, t \in ProvisionTemplates,
        z \in ProvisionZones, w \in ProvisionNetworks, p \in ProvisionProjects }

InitProvision ==
    /\ callers \in { [i \in Callers |->
                        IF i = 1 THEN [IdleCaller EXCEPT !.pc = "extracted", !.state = s]
                        ELSE IdleCaller] : s \in ProvisionStates }
    /\ infos = One(1, HostClusterInfo)
    /\ clients = EmptyMap
    /\ submitted = <<>>
    /\ driverCapabilities = NewDriver
    /\ last = NoCall
    /\ unit = NoUnit

\* createInstance returns (vm, err) to the caller that invoked it directly.
ProvisionReturn(i) ==
    /\ callers[i].pc = "deployed"
    /\ callers' = [callers EXCEPT ![i] = [@ EXCEPT !.pc = "done"]]
    /\ last' = Returned("createInstance", NilRef, NilRef,
                        [type |-> "DeployVirtualMachineResponse", vm |-> callers[i].vm],
                        callers[i].err)
    /\ UNCHANGED <<infos, clients, submitted, driverCapabilities, unit>>

NextProvision ==
    \/ \E i \in Callers : AcsConn(i)
    \/ \E i \in Callers : DeploySend(i)
    \/ \E i \in Callers : DeployAnswer(i)
    \/ \E i \in Callers : ProvisionReturn(i)

SpecProvision == InitProvision /\ [][NextProvision]_vars

-----------------------------------------------------------------------------
(* getStateFromOpts called directly, on option bags with every key free.    *)

\* The option names getStateFromOpts looks up first, and the alternate names.
DeclaredStringKeys ==
    {"cluster-name", "description", "cloudstack-endpoint", "cloudstack-access",
     "cloudstack-secret"}
AlternateStringKeys == {"ClusterName", "Description", "CloudstackEndPoint"}
StringKeys == DeclaredStringKeys \cup AlternateStringKeys
IntKeys == {"node-count", "InitialNodeCount"}

\* Per key: 0 for absent, otherwise which of its values the bag holds.
StringShapes ==
    { f \in [StringKeys -> 0..2] : \A k \in AlternateStringKeys : f[k] < 2 }
IntShapes == { g \in [IntKeys -> 0..2] : g["InitialNodeCount"] < 2 }

StringValue(k, n) == k \o (IF n = 1 THEN "=1" ELSE "=2")
IntValue(k, n) == IF k = "node-count" THEN n ELSE 7

ExtractBags ==
    { DriverOptions([k \in {x \in StringKeys : f[x] # 0} |-> StringValue(k, f[k])],
                    [k \in {x \in IntKeys : g[x] # 0} |-> IntValue(k, g[k])]) :
        f \in StringShapes, g \in IntShapes }

InitExtract ==
    /\ callers = [i \in Callers |-> IdleCaller]
    /\ infos = One(1, HostClusterInfo)
    /\ clients = EmptyMap
    /\ submitted = <<>>
    /\ driverCapabilities = NewDriver
    /\ last = NoCall
    /\ unit \in { [NoUnit EXCEPT !.fn = "getStateFromOpts", !.opts = o] : o \in ExtractBags }

ExtractCall ==
    /\ unit.fn = "getStateFromOpts"
    /\ ~unit.done
    /\ LET r == getStateFromOpts(unit.opts) IN
        unit' = [unit EXCEPT !.done = TRUE, !.state = r.state, !.err = r.err]
    /\ UNCHANGED <<callers, infos, clients, submitted, driverCapabilities, last>>

NextExtract == ExtractCall

SpecExtract == InitExtract /\ [][NextExtract]_vars

-----------------------------------------------------------------------------
(* Properties.                                                             *)

\* The Create calls that have returned.
ReturnedCalls == {i \in Callers : callers[i].pc = "done"}

\* In every state: each Create call that has returned, returned a nil error
\* and its own ClusterInfo, which is empty, is not the record passed in, is no
\* record the host had before and is not the record of another call.
C1_ReturnedState ==
    \A i \in ReturnedCalls :
        /\ callers[i].ret.err = ErrNil
        /\ callers[i].ret.rinfo # NilRef
        /\ callers[i].ret.rinfo = callers[i].info
        /\ callers[i].ret.rinfo # callers[i].arg
        /\ callers[i].ret.rinfo # 1
        /\ infos[callers[i].ret.rinfo] = ZeroClusterInfo
        /\ \A j \in ReturnedCalls : j # i => callers[j].ret.rinfo # callers[i].ret.rinfo

\* C1: whatever the option bag and whatever the provider answers to the deploy
\* request, Create returns a nil error together with an empty ClusterInfo that
\* did not exist when the call began, so it is not the record passed in.
C1_CreateReturnsFreshEmptyInfo ==
    /\ []C1_ReturnedState
    /\ [][\A i \in Callers :
             (callers[i].pc = "idle" /\ callers'[i].pc # "idle") =>
                 /\ callers'[i].info \notin DOMAIN infos
                 /\ callers'[i].info \in DOMAIN infos']_vars

\* C1 witness: a Create that was handed the host's record has returned after
\* the provider refused its deployment.
C1_Witness ==
    /\ callers[1].pc = "done"
    /\ callers[1].opts = BagDeclared
    /\ callers[1].arg = 1
    /\ infos[1] = HostClusterInfo
    /\ submitted[callers[1].req].answer = "error"
    /\ last.op = "Create"
    /\ last.rinfo = callers[1].info

NotImplementedOps == {"Remove", "SetClusterSize", "ETCDSave", "ETCDRemoveSnapshot"}

\* C2: Remove, SetClusterSize, ETCDSave and ETCDRemoveSnapshot return the
\* non-nil error "Not implemented" for every input and after any earlier calls.
C2_NotImplementedAlwaysFails ==
    last.op \in NotImplementedOps =>
        /\ last.err # ErrNil
        /\ last.err = "Not implemented"

\* C2 witness: ETCDSave has answered after a Create call completed.
C2_Witness ==
    /\ last.op = "ETCDSave"
    /\ last.arg = 1
    /\ callers[1].pc = "done"
    /\ Len(submitted) = 1

\* C3: Update and PostCheck return the very reference they were given, with a
\* nil error, and leave the records on the heap as they were.
C3_PassThrough ==
    [][(last' # last /\ last'.op \in {"Update", "PostCheck"} /\ last'.arg # NilRef) =>
          /\ last'.rinfo = last'.arg
          /\ last'.err = ErrNil
          /\ infos' = infos]_vars

\* C3 witness: PostCheck has answered for the host's non-empty record while a
\* Create call was waiting for the provider.
C3_Witness ==
    /\ last.op = "PostCheck"
    /\ last.arg = 1
    /\ last.rinfo = 1
    /\ infos[1] = HostClusterInfo
    /\ infos[1] # ZeroClusterInfo
    /\ callers[1].pc = "sent"

\* C4: the request createInstance submits for settings (S, T, Z, N, W, P) has
\* exactly the keys name, displayname, serviceofferingid, templateid, zoneid,
\* projectid and networkids, with the values N, N, S, T, Z, P and <<W>>.
C4_DeployRequestFields ==
    \A k \in DOMAIN submitted :
        LET s == callers[submitted[k].call].state IN
        submitted[k].params =
            [name |-> s.ClusterName,
             displayname |-> s.ClusterName,
             serviceofferingid |-> s.AcsSettings.ServiceOffering,
             templateid |-> s.AcsSettings.TemplateID,
             zoneid |-> s.AcsSettings.ZoneID,
             projectid |-> s.AcsSettings.ProjectID,
             networkids |-> <<s.AcsSettings.NetworkID>>]

\* C4 witness: a request was submitted for settings with every id set.
C4_Witness ==
    /\ Len(submitted) = 1
    /\ callers[1].state.ClusterName = "N"
    /\ callers[1].state.AcsSettings.ServiceOffering = "S"
    /\ callers[1].state.AcsSettings.TemplateID = "T"
    /\ callers[1].state.AcsSettings.ZoneID = "Z"
    /\ callers[1].state.AcsSettings.NetworkID = "W"
    /\ callers[1].state.AcsSettings.ProjectID = "P"
    /\ submitted[1].params["templateid"] = "T"
    /\ submitted[1].params["zoneid"] = "Z"

\* The value of a string option read under one name only.
OwnString(opts, k) ==
    IF k \in DOMAIN opts.StringOptions THEN opts.StringOptions[k] ELSE ""

\* The value of an integer option read under one name only.
OwnInt(opts, k) ==
    IF k \in DOMAIN opts.IntOptions THEN opts.IntOptions[k] ELSE 0

\* The value of a string option read under its name, then its alternate name.
EitherString(opts, k, alt) ==
    IF k \in DOMAIN opts.StringOptions THEN opts.StringOptions[k]
    ELSE IF alt \in DOMAIN opts.StringOptions THEN opts.StringOptions[alt]
    ELSE ""

\* The value of an integer option read under its name, then its alternate name.
EitherInt(opts, k, alt) ==
    IF k \in DOMAIN opts.IntOptions THEN opts.IntOptions[k]
    ELSE IF alt \in DOMAIN opts.IntOptions THEN opts.IntOptions[alt]
    ELSE 0

\* C5 as stated: extraction returns a nil error, copies each of the six
\* declared options that is present, and yields the zero value for each one
\* that is missing.
C5_MissingOptionIsZero ==
    unit.done =>
        /\ unit.err = ErrNil
        /\ unit.state.ClusterName = OwnString(unit.opts, "cluster-name")
        /\ unit.state.Description = OwnString(unit.opts, "description")
        /\ unit.state.AcsSettings.Config.EndPoint = OwnString(unit.opts, "cloudstack-endpoint")
        /\ unit.state.AcsSettings.Config.Access = OwnString(unit.opts, "cloudstack-access")
        /\ unit.state.AcsSettings.Config.Secret = OwnString(unit.opts, "cloudstack-secret")
        /\ unit.state.InitialNodeCount = OwnInt(unit.opts, "node-count")

\* C5 amended: extraction returns a nil error and copies each declared option
\* that is present; a missing cluster-name, description, cloudstack-endpoint or
\* node-count takes the value of its alternate name (ClusterName, Description,
\* CloudstackEndPoint, InitialNodeCount) when the bag has it; an option missing
\* under every name it is read by yields the zero value.
C5_MissingUnderEveryNameIsZero ==
    unit.done =>
        /\ unit.err = ErrNil
        /\ unit.state.ClusterName = EitherString(unit.opts, "cluster-name", "ClusterName")
        /\ unit.state.Description = EitherString(unit.opts, "description", "Description")
        /\ unit.state.AcsSettings.Config.EndPoint =
               EitherString(unit.opts, "cloudstack-endpoint", "CloudstackEndPoint")
        /\ unit.state.AcsSettings.Config.Access = OwnString(unit.opts, "cloudstack-access")
        /\ unit.state.AcsSettings.Config.Secret = OwnString(unit.opts, "cloudstack-secret")
        /\ unit.state.InitialNodeCount = EitherInt(unit.opts, "node-count", "InitialNodeCount")

\* C5 witness: extraction has run on a bag that has cluster-name only under its
\* alternate name, has the access key, and lacks the secret key and node count.
C5_Witness ==
    /\ unit.done
    /\ "cluster-name" \notin DOMAIN unit.opts.StringOptions
    /\ "ClusterName" \in DOMAIN unit.opts.StringOptions
    /\ "cloudstack-access" \in DOMAIN unit.opts.StringOptions
    /\ "cloudstack-secret" \notin DOMAIN unit.opts.StringOptions
    /\ DOMAIN unit.opts.IntOptions = {}
    /\ unit.state.ClusterName = unit.opts.StringOptions["ClusterName"]
    /\ unit.state.AcsSettings.Config.Secret = ""
    /\ unit.state.InitialNodeCount = 0

\* The requests the provider received from Create call i.
RequestsOf(i) == {k \in DOMAIN submitted : submitted[k].call = i}

\* The Create calls that have handed their request to the provider.
SentCalls == {i \in Callers : callers[i].pc \in {"sent", "deployed", "done"}}

\* C6: a Create call has submitted exactly one deploy request once it has
\* reached the provider, and still exactly one when it has returned, whatever
\* the answer; so n calls leave exactly n requests.
C6_OneRequestPerCreate ==
    /\ \A i \in Callers :
          Cardinality(RequestsOf(i)) = IF i \in SentCalls THEN 1 ELSE 0
    /\ Len(submitted) = Cardinality(SentCalls)
    /\ \A i \in ReturnedCalls : RequestsOf(i) = {callers[i].req}

\* C6 witness: two Create calls with the same option bag have returned, the
\* first deployment failed, and the provider holds two equal requests.
C6_Witness ==
    /\ callers[1].pc = "done"
    /\ callers[2].pc = "done"
    /\ callers[1].opts = BagDeclared
    /\ callers[2].opts = BagDeclared
    /\ Len(submitted) = 2
    /\ submitted[callers[1].req].answer = "error"
    /\ submitted[1].params = submitted[2].params
    /\ submitted[1].call # submitted[2].call

StubOps ==
    {"Update", "PostCheck", "Remove", "GetVersion", "SetVersion", "GetClusterSize",
     "SetClusterSize", "GetCapabilities", "GetK8SCapabilities",
     "RemoveLegacyServiceAccount", "ETCDSave", "ETCDRestore", "ETCDRemoveSnapshot"}

\* The answer of each operation other than Create, by operation and argument.
StubAnswer(op, arg) ==
    [rinfo |-> IF op \in {"Update", "PostCheck"} THEN arg ELSE NilRef,
     rval |-> IF op = "GetVersion" THEN [type |-> "KubernetesVersion", Major |-> "", Minor |-> ""]
              ELSE IF op = "GetClusterSize" THEN [type |-> "NodeCount", Count |-> 0]
              ELSE IF op = "GetCapabilities" THEN [type |-> "Capabilities", Capabilities |-> {}]
              ELSE IF op = "GetK8SCapabilities"
                   THEN [type |-> "K8SCapabilities", L4LoadBalancer |-> 0,
                         IngressControllers |-> <<>>, NodePoolScalingSupported |-> FALSE,
                         NodePortRange |-> ""]
              ELSE [type |-> "none"],
     err |-> IF op \in NotImplementedOps THEN "Not implemented" ELSE "<nil>"]

\* C7: a call of any operation other than Create builds no connection, submits
\* no request, leaves the driver's capability set and the running calls alone,
\* and answers by operation and argument only.
C7_OnlyCreateActs ==
    [][(last' # last /\ last'.op \in StubOps) =>
          /\ UNCHANGED <<clients, submitted, driverCapabilities, callers, infos>>
          /\ last'.rinfo = StubAnswer(last'.op, last'.arg).rinfo
          /\ last'.rval = StubAnswer(last'.op, last'.arg).rval
          /\ last'.err = StubAnswer(last'.op, last'.arg).err]_vars

\* C7 witness: SetVersion has answered while the request of a Create call was
\* with the provider; the connection and the request of that Create are all
\* there is.
C7_Witness ==
    /\ last.op = "SetVersion"
    /\ callers[1].pc = "sent"
    /\ DOMAIN clients = {1}
    /\ Len(submitted) = 1
    /\ submitted[1].answer = "pending"
    /\ driverCapabilities = NewDriver

\* C8: the driver holds the four capabilities registered at construction, and
\* GetCapabilities answers with an empty capability record and a nil error.
C8_CapabilitiesNeverVisible ==
    /\ driverCapabilities =
          {GetVersionCapability, SetVersionCapability, GetClusterSizeCapability,
           SetClusterSizeCapability}
    /\ Cardinality(driverCapabilities) = 4
    /\ last.op = "GetCapabilities" =>
          /\ last.rval.Capabilities = {}
          /\ last.err = ErrNil

\* C8 witness: GetCapabilities has answered after a Create call.
C8_Witness ==
    /\ last.op = "GetCapabilities"
    /\ last.rval.Capabilities = {}
    /\ GetVersionCapability \in driverCapabilities
    /\ callers[1].pc = "done"

\* The calls that hold a connection handle.
Connected == {i \in Callers : callers[i].cs # NilRef}

\* In every state: a handle is held only by a call whose extraction is
\* complete, is bound to the triple of that call's own option bag, and is held
\* by no other call; every request went over the handle of the call it is from.
C9_OwnHandleState ==
    /\ \A i \in Connected :
          /\ callers[i].pc \in {"connected", "sent", "deployed", "done"}
          /\ callers[i].state = getStateFromOpts(callers[i].opts).state
          /\ callers[i].cs \in DOMAIN clients
          /\ clients[callers[i].cs].EndPoint = callers[i].state.AcsSettings.Config.EndPoint
          /\ clients[callers[i].cs].Access = callers[i].state.AcsSettings.Config.Access
          /\ clients[callers[i].cs].Secret = callers[i].state.AcsSettings.Config.Secret
    /\ \A i, j \in Connected : i # j => callers[i].cs # callers[j].cs
    /\ \A k \in DOMAIN submitted :
          /\ submitted[k].call \in Connected
          /\ submitted[k].call \in SentCalls
          /\ submitted[k].handle = callers[submitted[k].call].cs
          /\ submitted[k].params["name"] = callers[submitted[k].call].state.ClusterName

\* C9: under any interleaving of Create calls each call deploys over the
\* handle it built itself, after its own extraction, from its own triple, and a
\* handle, once built, never changes.
C9_OwnHandle ==
    /\ []C9_OwnHandleState
    /\ [][\A h \in DOMAIN clients : h \in DOMAIN clients' /\ clients'[h] = clients[h]]_vars

\* C9 witness: two calls with different triples are both waiting for the
\* provider; the call that started first connected second and sent first.
C9_Witness ==
    /\ callers[1].pc = "sent"
    /\ callers[2].pc = "sent"
    /\ callers[1].opts = BagDeclared
    /\ callers[2].opts = BagAlternate
    /\ callers[1].cs = 2
    /\ callers[2].cs = 1
    /\ Len(submitted) = 2
    /\ submitted[1].call = 1
    /\ submitted[2].call = 2
    /\ clients[1].Access = "AK2"
    /\ clients[2].Access = "AK"

\* C10: every request a Create call submits has an empty service-offering,
\* template, zone and project id and the network ids <<"">>; its name and
\* display name are the cluster name of the call.
C10_CreateRequestIdsEmpty ==
    \A k \in DOMAIN submitted :
        /\ submitted[k].params["serviceofferingid"] = ""
        /\ submitted[k].params["templateid"] = ""
        /\ submitted[k].params["zoneid"] = ""
        /\ submitted[k].params["projectid"] = ""
        /\ submitted[k].params["networkids"] = <<"">>
        /\ submitted[k].params["name"] =
               EitherString(callers[submitted[k].call].opts, "cluster-name", "ClusterName")
        /\ submitted[k].params["displayname"] = submitted[k].params["name"]

\* C10 witness: requests of two calls with different cluster names, one from a
\* bag that carries template, zone and offering options the driver never reads.
C10_Witness ==
    /\ Len(submitted) = 2
    /\ callers[submitted[1].call].opts = BagAlternate
    /\ "template-id" \in DOMAIN callers[submitted[1].call].opts.StringOptions
    /\ submitted[1].params["name"] = "legacy"
    /\ submitted[2].params["name"] = "demo"
    /\ submitted[1].params["templateid"] = ""

====
